---- MODULE Spec2Model ----
(***************************************************************************)
(* Model of the handle-req router: registration (Router.on), the route     *)
(* trie (Node), the iterative matcher (Router.match), parameter binding    *)
(* and the handler chain (Endpoint.handle) and dispatch (Router.fetch).    *)
(*                                                                         *)
(* Strings are sequences of one-character strings, so that split, join,    *)
(* startsWith, slice and the path regular expression are computed on the   *)
(* characters as the code computes them.  A method name is one symbol.     *)
(* A JavaScript null/undefined is the empty sequence Null; a present       *)
(* value v is the one-element sequence <<v>>.                              *)
(***************************************************************************)
EXTENDS Integers, Sequences, FiniteSets, TLC

VARIABLES routes, methods, registered, call, outcome, dispatches

vars == <<routes, methods, registered, call, outcome, dispatches>>

\* ------------------------------------------------------------------ bounds
MaxSegs == 2
MaxDeepSegs == 3
MaxRoutes == 2
MaxDeepRoutes == 3
MaxReqSegs == 3
MaxChain == 2
MaxChainRoutes == 1
MaxDispatches == 2

\* ----------------------------------------------------------------- strings
Null == <<>>

Some(v) == <<v>>

SLASH == <<"/">>

COLON == <<":">>

STAR == <<"*">>

\* s.startsWith(':')
StartsWithColon(s) == Len(s) > 0 /\ s[1] = ":"

\* s.slice(n) of a string or an array (n is 0-based)
Slice(s, n) == SubSeq(s, n + 1, Len(s))

\* path.split('/')
RECURSIVE Split(_)
Split(s) ==
  IF \A i \in 1..Len(s) : s[i] # "/"
  THEN <<s>>
  ELSE LET i == CHOOSE k \in 1..Len(s) :
                  s[k] = "/" /\ \A j \in 1..(k - 1) : s[j] # "/"
       IN <<SubSeq(s, 1, i - 1)>> \o Split(SubSeq(s, i + 1, Len(s)))

IsNonEmpty(s) == Len(s) > 0

\* path.split('/').filter(Boolean)
Segments(s) == SelectSeq(Split(s), IsNonEmpty)

\* parts.join('/')
RECURSIVE Join(_)
Join(parts) ==
  IF parts = <<>> THEN <<>>
  ELSE IF Len(parts) = 1 THEN parts[1]
  ELSE parts[1] \o SLASH \o Join(Tail(parts))

\* ------------------------------------------------------------ IS_VALID_PATH
\* /^\/((?::?[\w\d.-~@]+)(?:\/:?[\w\d_.-~@]+)*(?:\/\*)?\/?)?$/
\* The matcher keeps the set of positions the expression can have consumed.
\* In [\w\d.-~@] the part .-~ is the range from '.' to '~': it holds the
\* letters, '/' and ':', and neither '*' nor '-'.
\* mutant of InClass: the class holds '*' too
InClassWithStar(c) == c \in {"a", "b", "x", "y", "/", ":", "*"}

InClass(c) == c \in {"a", "b", "x", "y", "/", ":"}

ReChar(s, P, c) == {i + 1 : i \in {k \in P : k < Len(s) /\ s[k + 1] = c}}

ReOpt(s, P, c) == P \cup ReChar(s, P, c)

ReClassPlus(s, P) ==
  {j \in 1..Len(s) : \E i \in P : i < j /\ \A k \in (i + 1)..j : InClass(s[k])}

\* :?[\w\d.-~@]+
ReSlug(s, P) == ReClassPlus(s, ReOpt(s, P, ":"))

\* (?:\/:?[\w\d_.-~@]+)*
RECURSIVE ReSlugs(_, _)
ReSlugs(s, P) ==
  LET Q == P \cup ReSlug(s, ReChar(s, P, "/"))
  IN IF Q = P THEN P ELSE ReSlugs(s, Q)

\* (?:\/\*)?
ReCatchAll(s, P) == P \cup ReChar(s, ReChar(s, P, "/"), "*")

IS_VALID_PATH(s) ==
  LET P0 == ReChar(s, {0}, "/")
      P1 == ReOpt(s, ReCatchAll(s, ReSlugs(s, ReSlug(s, P0))), "/")
  IN Len(s) \in (P0 \cup P1)

\* --------------------------------------------------------------------- Node
Node(token) ==
  [token |-> token, endpoint |-> Null, dynamicChild |-> Null,
   catchAllChild |-> Null, staticChildren |-> <<>>]

\* --------------------------------------------------------------- Endpoint
Endpoint(keys, handlers) == [keys |-> keys, handlers |-> handlers]

\* a parameter value is a string or an array of strings
Str(s) == [t |-> "string", v |-> s]

Arr(a) == [t |-> "array", v |-> a]

\* mutant of BindKey: a repeated name overwrites the value bound before
BindKeyOverwrites(params, key, route) ==
  LET slug == key[1]
      depth == key[2]
  IN IF slug = STAR
     THEN (slug :> Arr(Slice(route, depth))) @@ params
     ELSE (slug :> Str(route[depth + 1])) @@ params

\* one step of the reduce over this.keys; key = <<slug, depth>>, depth 0-based
BindKey(params, key, route) ==
  LET slug == key[1]
      depth == key[2]
  IN IF slug = STAR
     THEN (slug :> Arr(Slice(route, depth))) @@ params
     ELSE IF slug \in DOMAIN params
     THEN IF params[slug].t = "array"
          THEN (slug :> Arr(Append(params[slug].v, route[depth + 1]))) @@ params
          ELSE (slug :> Arr(<<params[slug].v, route[depth + 1]>>)) @@ params
     ELSE (slug :> Str(route[depth + 1])) @@ params

\* this.keys.reduce(..., Object.create(null))
RECURSIVE BindFrom(_, _, _, _)
BindFrom(params, keys, i, route) ==
  IF i > Len(keys) THEN params
  ELSE BindFrom(BindKey(params, keys[i], route), keys, i + 1, route)

Bind(keys, route) == BindFrom(<<>>, keys, 1, route)

\* What a handler call or a dispatch ends with: a Response, undefined, or a
\* thrown error.
Response(status, body) == [t |-> "response", status |-> status, body |-> body]

Undefined == [t |-> "undefined", status |-> 0, body |-> Null]

Thrown(error) == [t |-> "thrown", status |-> 0, body |-> Some(error)]

\* a promise that never settles
Pending == [t |-> "pending", status |-> 0, body |-> Null]

\* The handlers are the caller's functions, of these kinds:
\*   "respond"      returns a 200 Response that carries its own tag and the
\*                  params it was given
\*   "nothing"      returns undefined
\*   "throw"        throws an error that carries its own tag
\*   "suspend"      awaits a promise that never settles
\*   "next"         return next()
\*   "nextRespond"  await next(), then as "respond"
\*   "nextThrow"    await next(), then as "throw"
Ok(handler, params) ==
  Response(200, Some([handler |-> handler.tag, params |-> params]))

Failure(handler) == Thrown(<<"handler error", handler.tag>>)

InvokesNext(handler) == handler.kind \in {"next", "nextRespond", "nextThrow"}

\* what a handler that does not invoke next ends with
Ends(handler, params) ==
  CASE handler.kind = "respond" -> Ok(handler, params)
    [] handler.kind = "throw" -> Failure(handler)
    [] handler.kind = "suspend" -> Pending
    [] OTHER -> Undefined

\* what a handler that awaited next() ends with, given what next() yielded:
\* a rejection is rethrown by the await, a pending promise leaves it waiting
Continues(handler, params, yielded) ==
  IF yielded.t \in {"thrown", "pending"} THEN yielded
  ELSE CASE handler.kind = "nextRespond" -> Ok(handler, params)
         [] handler.kind = "nextThrow" -> Failure(handler)
         [] OTHER -> yielded

\* Calling stack[depth] past the end of the array is a TypeError.
RECURSIVE _next(_, _, _)
_next(stack, depth, params) ==
  IF depth >= Len(stack)
  THEN Thrown(<<"TypeError">>)
  ELSE LET handler == stack[depth + 1]
       IN IF InvokesNext(handler)
          THEN Continues(handler, params, _next(stack, depth + 1, params))
          ELSE Ends(handler, params)

handle(endpoint, route) == _next(endpoint.handlers, 0, Bind(endpoint.keys, route))

\* no value yet
NoValue == [t |-> "none", status |-> 0, body |-> Null]

\* ------------------------------------------------------------- Router.on
\* mutant of Tokens: a capture keeps its name as its token
TokensKeepNames(pattern) == pattern

\* pattern.map(slug => slug.startsWith(':') ? ':' : slug)
Tokens(pattern) ==
  [i \in 1..Len(pattern) |-> IF StartsWithColon(pattern[i]) THEN COLON ELSE pattern[i]]

\* mutant of RouteOf: the key leaves the method out
RouteOfNoMethod(method, tokens) == Join(tokens)

\* [method, ...tokens].join('/')
RouteOf(method, tokens) == Join(<<method>> \o tokens)

\* mutant of KeysFrom: a key holds its rank among the keys, not its index
RECURSIVE KeysFromRank(_, _)
KeysFromRank(pattern, index) ==
  IF index >= Len(pattern) THEN <<>>
  ELSE LET slug == pattern[index + 1]
           rank == Cardinality({j \in 1..index :
                      pattern[j] = STAR \/ StartsWithColon(pattern[j])})
       IN (IF slug = STAR THEN <<(<<slug, rank>>)>> ELSE <<>>)
          \o (IF StartsWithColon(slug) THEN <<(<<Slice(slug, 1), rank>>)>> ELSE <<>>)
          \o KeysFromRank(pattern, index + 1)

\* pattern.reduce(...): <<name, index>> of every catch-all and capture slug
RECURSIVE KeysFrom(_, _)
KeysFrom(pattern, index) ==
  IF index >= Len(pattern) THEN <<>>
  ELSE LET slug == pattern[index + 1]
       IN (IF slug = STAR THEN <<(<<slug, index>>)>> ELSE <<>>)
          \o (IF StartsWithColon(slug) THEN <<(<<Slice(slug, 1), index>>)>> ELSE <<>>)
          \o KeysFrom(pattern, index + 1)

Keys(pattern) == KeysFrom(pattern, 0)

\* mutant of Insert: the capture child is made anew on every walk
RECURSIVE InsertReplacesCapture(_, _, _, _)
InsertReplacesCapture(node, tokens, t, endpoint) ==
  IF t >= Len(tokens)
  THEN [node EXCEPT !.endpoint = Some(endpoint)]
  ELSE LET token == tokens[t + 1]
       IN IF token = COLON
          THEN [node EXCEPT
                  !.dynamicChild =
                     Some(InsertReplacesCapture(Node(token), tokens, t + 1, endpoint))]
          ELSE IF token = STAR
          THEN LET child == IF node.catchAllChild = Null
                            THEN Node(token) ELSE node.catchAllChild[1]
               IN [node EXCEPT
                     !.catchAllChild =
                        Some(InsertReplacesCapture(child, tokens, t + 1, endpoint))]
          ELSE LET child == IF token \in DOMAIN node.staticChildren
                            THEN node.staticChildren[token] ELSE Node(token)
               IN [node EXCEPT
                     !.staticChildren =
                        (token :> InsertReplacesCapture(child, tokens, t + 1, endpoint)) @@ @]

\* the loop over tokens, from token t of the node, and the final assignment
\* of node.endpoint
RECURSIVE Insert(_, _, _, _)
Insert(node, tokens, t, endpoint) ==
  IF t >= Len(tokens)
  THEN [node EXCEPT !.endpoint = Some(endpoint)]
  ELSE LET token == tokens[t + 1]
       IN IF token = COLON
          THEN LET child == IF node.dynamicChild = Null
                            THEN Node(token) ELSE node.dynamicChild[1]
               IN [node EXCEPT
                     !.dynamicChild = Some(Insert(child, tokens, t + 1, endpoint))]
          ELSE IF token = STAR
          THEN LET child == IF node.catchAllChild = Null
                            THEN Node(token) ELSE node.catchAllChild[1]
               IN [node EXCEPT
                     !.catchAllChild = Some(Insert(child, tokens, t + 1, endpoint))]
          ELSE LET child == IF token \in DOMAIN node.staticChildren
                            THEN node.staticChildren[token] ELSE Node(token)
               IN [node EXCEPT
                     !.staticChildren =
                        (token :> Insert(child, tokens, t + 1, endpoint)) @@ @]

\* mutant of RouteConflict: the recorded path is named before the new one
RouteConflictOldFirst(method, path, previous) ==
  <<"route conflict", method, previous, path>>

\* `${method} route conflict: ${path} - ${this._routes[route]}`: the method,
\* the new path, the recorded path
RouteConflict(method, path, previous) ==
  <<"route conflict", method, path, previous>>

InvalidRoute(path) == <<"invalid route", path>>

\* mutant of on: a route recorded before is recorded and inserted again
onOverwrites(rs, ms, method, path, handlers) ==
  IF ~IS_VALID_PATH(path)
  THEN [routes |-> rs, methods |-> ms, thrown |-> Some(InvalidRoute(path))]
  ELSE LET pattern == Segments(path)
           tokens == Tokens(pattern)
           route == RouteOf(method, tokens)
           keys == Keys(pattern)
           root == IF method \in DOMAIN ms THEN ms[method] ELSE Node(SLASH)
       IN [routes |-> (route :> path) @@ rs,
           methods |-> (method :> Insert(root, tokens, 0,
                                         Endpoint(keys, handlers))) @@ ms,
           thrown |-> Null]

\* mutant of on: the path is validated after the route is recorded and
\* inserted
onValidatesLast(rs, ms, method, path, handlers) ==
  LET pattern == Segments(path)
      tokens == Tokens(pattern)
      route == RouteOf(method, tokens)
  IN IF route \in DOMAIN rs
     THEN [routes |-> rs, methods |-> ms,
           thrown |-> Some(RouteConflict(method, path, rs[route]))]
     ELSE LET keys == Keys(pattern)
              root == IF method \in DOMAIN ms THEN ms[method] ELSE Node(SLASH)
          IN [routes |-> (route :> path) @@ rs,
              methods |-> (method :> Insert(root, tokens, 0,
                                            Endpoint(keys, handlers))) @@ ms,
              thrown |-> IF IS_VALID_PATH(path)
                         THEN Null ELSE Some(InvalidRoute(path))]

\* Router.on on the router <<rs, ms>>: the router after the call and the
\* error thrown, if any
on(rs, ms, method, path, handlers) ==
  IF ~IS_VALID_PATH(path)
  THEN [routes |-> rs, methods |-> ms, thrown |-> Some(InvalidRoute(path))]
  ELSE LET pattern == Segments(path)
           tokens == Tokens(pattern)
           route == RouteOf(method, tokens)
       IN IF route \in DOMAIN rs
          THEN [routes |-> rs, methods |-> ms,
                thrown |-> Some(RouteConflict(method, path, rs[route]))]
          ELSE LET keys == Keys(pattern)
                   root == IF method \in DOMAIN ms THEN ms[method] ELSE Node(SLASH)
               IN [routes |-> (route :> path) @@ rs,
                   methods |-> (method :> Insert(root, tokens, 0,
                                                 Endpoint(keys, handlers))) @@ ms,
                   thrown |-> Null]

\* ------------------------------------------------------------- Slug.match
\* The recursive matcher of the earlier router, on the same tree: the
\* static children first, then the capture child, then the catch-all child's
\* endpoint; a child that yields no endpoint is passed over.
RECURSIVE SlugMatch(_, _, _)
SlugMatch(node, depth, route) ==
  IF node.token # route[depth + 1] /\ node.token # COLON THEN Null
  ELSE IF depth + 1 = Len(route) THEN node.endpoint
  ELSE LET found == {SlugMatch(node.staticChildren[t], depth + 1, route) :
                       t \in DOMAIN node.staticChildren} \ {Null}
           matched == IF found = {} THEN Null ELSE CHOOSE e \in found : TRUE
           dynamic == IF node.dynamicChild = Null THEN Null
                      ELSE SlugMatch(node.dynamicChild[1], depth + 1, route)
       IN IF matched # Null THEN matched
          ELSE IF dynamic # Null THEN dynamic
          ELSE IF node.catchAllChild = Null THEN Null
          ELSE node.catchAllChild[1].endpoint

\* root.match(0, [req.method, ...route])
matchRecursive(root, route) == SlugMatch(root, 0, route)

\* ----------------------------------------------------------- Router.match
\* mutant of Pushes: every static child is pushed, whatever the segment
PushesEveryStatic(node, next, route) ==
  (IF node.catchAllChild # Null THEN <<(<<node.catchAllChild[1], next>>)>> ELSE <<>>)
  \o (IF node.dynamicChild # Null THEN <<(<<node.dynamicChild[1], next>>)>> ELSE <<>>)
  \o (IF DOMAIN node.staticChildren # {}
      THEN <<(<<node.staticChildren[CHOOSE t \in DOMAIN node.staticChildren : TRUE],
               next>>)>>
      ELSE <<>>)

\* mutant of Pushes: the catch-all child is pushed last and so popped first
PushesCatchAllLast(node, next, route) ==
  (IF node.dynamicChild # Null THEN <<(<<node.dynamicChild[1], next>>)>> ELSE <<>>)
  \o (IF route[next + 1] \in DOMAIN node.staticChildren
      THEN <<(<<node.staticChildren[route[next + 1]], next>>)>> ELSE <<>>)
  \o (IF node.catchAllChild # Null THEN <<(<<node.catchAllChild[1], next>>)>> ELSE <<>>)

\* mutant of Pushes: the children are pushed in the order of their rank, the
\* static child first, and so popped in the reverse of it
PushesInPriorityOrder(node, next, route) ==
  (IF route[next + 1] \in DOMAIN node.staticChildren
   THEN <<(<<node.staticChildren[route[next + 1]], next>>)>> ELSE <<>>)
  \o (IF node.dynamicChild # Null THEN <<(<<node.dynamicChild[1], next>>)>> ELSE <<>>)
  \o (IF node.catchAllChild # Null THEN <<(<<node.catchAllChild[1], next>>)>> ELSE <<>>)

\* the three pushes of one round of the loop; the last pushed is popped first
Pushes(node, next, route) ==
  (IF node.catchAllChild # Null THEN <<(<<node.catchAllChild[1], next>>)>> ELSE <<>>)
  \o (IF node.dynamicChild # Null THEN <<(<<node.dynamicChild[1], next>>)>> ELSE <<>>)
  \o (IF route[next + 1] \in DOMAIN node.staticChildren
      THEN <<(<<node.staticChildren[route[next + 1]], next>>)>> ELSE <<>>)

\* mutant of Returned: at the end of the path a node without an endpoint
\* yields that of its catch-all child
ReturnedFallsToCatchAll(node, depth, route) ==
  IF node.token = STAR THEN Some(node.endpoint)
  ELSE IF depth + 1 = Len(route)
  THEN IF node.endpoint = Null /\ node.catchAllChild # Null
       THEN Some(node.catchAllChild[1].endpoint)
       ELSE Some(node.endpoint)
  ELSE Null

\* what the loop returns for the popped <<node, depth>>, or Null to go on;
\* Some(Null) is a returned null endpoint
Returned(node, depth, route) ==
  IF node.token = STAR THEN Some(node.endpoint)
  ELSE IF depth + 1 = Len(route) THEN Some(node.endpoint)
  ELSE Null

RECURSIVE MatchLoop(_, _)
MatchLoop(stack, route) ==
  IF stack = <<>> THEN Null
  ELSE LET top == stack[Len(stack)]
           rest == SubSeq(stack, 1, Len(stack) - 1)
           node == top[1]
           depth == top[2]
           ret == Returned(node, depth, route)
       IN IF ret # Null THEN ret[1]
          ELSE MatchLoop(rest \o Pushes(node, depth + 1, route), route)

match(root, route) == MatchLoop(<<(<<root, 0>>)>>, route)

\* ----------------------------------------------------------- Router.fetch
\* mutant of RequestRoute: the empty strings of the split are kept
RequestRouteKeepsEmpty(pathname) == <<SLASH>> \o Tail(Split(pathname))

\* ['/', ...url.pathname.split('/').filter(Boolean)]
RequestRoute(pathname) == <<SLASH>> \o Segments(pathname)

fetch(ms, method, pathname) ==
  IF method \notin DOMAIN ms THEN Response(404, Null)
  ELSE LET route == RequestRoute(pathname)
           endpoint == match(ms[method], route)
       IN IF endpoint = Null THEN Response(404, Null)
          ELSE LET res == handle(endpoint[1], Slice(route, 1))
               IN IF res.t = "undefined" THEN Response(501, Null) ELSE res

\* ------------------------------------------------ a dispatch, step by step
\* Router.fetch and Endpoint.handle are async: between the handler steps of
\* one dispatch the steps of another may run.  A dispatch in flight holds
\* what its closures hold: stack (this.handlers), params, and one frame of
\* _next per handler called and not yet returned, frame k for stack[k - 1];
\* ret is the value on its way to the frame on top, or to fetch.  started,
\* invoked and alone are history: the handlers called, in order, the depths
\* of the handlers that invoked next, and what fetch returns for the
\* request, on the router as it is when the dispatch begins, with nothing
\* else in flight.
Idle ==
  [pc |-> "idle", method |-> Null, path |-> Null, stack |-> <<>>,
   params |-> <<>>, frames |-> <<>>, ret |-> NoValue, started |-> <<>>,
   invoked |-> {}, alone |-> NoValue, result |-> NoValue]

Frame(depth) == [depth |-> depth, state |-> "started"]

\* the frame on top and the handler it runs
Top(dsp) == dsp.frames[Len(dsp.frames)]

TopHandler(dsp) == dsp.stack[Top(dsp).depth + 1]

Pop(frames) == SubSeq(frames, 1, Len(frames) - 1)

\* mutant of lookup: a method without a root is given one, as on does
lookupCreatesRoot(rs, ms, method, pathname) ==
  [routes |-> rs,
   methods |-> IF method \in DOMAIN ms THEN ms ELSE (method :> Node(SLASH)) @@ ms,
   endpoint |-> IF method \notin DOMAIN ms THEN Null
                ELSE match(ms[method], RequestRoute(pathname))]

\* the root of the method and the endpoint match finds, or Null; fetch and
\* match assign no field of the router, which is returned as it was
lookup(rs, ms, method, pathname) ==
  [routes |-> rs, methods |-> ms,
   endpoint |-> IF method \notin DOMAIN ms THEN Null
                ELSE match(ms[method], RequestRoute(pathname))]

\* mutant of Call: the depth is one counter for all dispatches, reset by
\* _next() and advanced by next()
CallSharedDepth(ds, d, depth) ==
  LET inFlight == {e \in DOMAIN ds : ds[e].pc = "running" /\ ds[e].frames # <<>>}
      deepest == CHOOSE n \in {Top(ds[e]).depth : e \in inFlight} :
                   \A e \in inFlight : Top(ds[e]).depth <= n
      shared == IF depth = 0 THEN 0 ELSE deepest + 1
  IN IF shared >= Len(ds[d].stack)
     THEN [ds[d] EXCEPT !.ret = Thrown(<<"TypeError">>)]
     ELSE [ds[d] EXCEPT !.frames = Append(@, Frame(shared)),
                        !.started = Append(@, shared),
                        !.ret = NoValue]

\* mutant of Call: past the last handler _next returns a 501 response
CallPastEndIs501(ds, d, depth) ==
  IF depth >= Len(ds[d].stack)
  THEN [ds[d] EXCEPT !.ret = Response(501, Null)]
  ELSE [ds[d] EXCEPT !.frames = Append(@, Frame(depth)),
                     !.started = Append(@, depth),
                     !.ret = NoValue]

\* _next(depth) of dispatch d calls stack[depth]: a frame for the handler,
\* or the TypeError of calling undefined, which rejects the promise of
\* _next
Call(ds, d, depth) ==
  IF depth >= Len(ds[d].stack)
  THEN [ds[d] EXCEPT !.ret = Thrown(<<"TypeError">>)]
  ELSE [ds[d] EXCEPT !.frames = Append(@, Frame(depth)),
                     !.started = Append(@, depth),
                     !.ret = NoValue]

\* mutant of NextReturns: _next awaits the handler and returns nothing
NextReturnsNothing(res) == IF res.t = "thrown" THEN res ELSE Undefined

\* return await stack[depth](...): _next returns what the handler returned
NextReturns(res) == res

\* mutant of Settled: an undefined result is returned as it is
SettledAsIs(res) == res

\* mutant of Settled: a rejection is caught and answered with status 500
SettledCatches(res) ==
  IF res.t = "undefined" THEN Response(501, Null)
  ELSE IF res.t = "thrown" THEN Response(500, Null)
  ELSE res

\* await endpoint.handle(...) ?? new Response(null, { status: 501 })
Settled(res) == IF res.t = "undefined" THEN Response(501, Null) ELSE res

\* fetch up to the call of stack[0]: 404 without an endpoint, else the
\* params are bound and _next() is called
begin(ds, d, method, pathname, endpoint) ==
  LET asked == [Idle EXCEPT !.method = method, !.path = pathname]
  IN IF endpoint = Null
     THEN [asked EXCEPT !.pc = "done", !.result = Response(404, Null)]
     ELSE Call([ds EXCEPT ![d] =
                  [asked EXCEPT
                     !.pc = "running",
                     !.stack = endpoint[1].handlers,
                     !.params = Bind(endpoint[1].keys,
                                     Slice(RequestRoute(pathname), 1))]],
               d, 0)

\* mutant of run: a handler that is not the last and returns undefined
\* falls through to the handler after it
runFallsThrough(ds, d) ==
  LET dsp == ds[d]
      top == Top(dsp)
      res == Ends(TopHandler(dsp), dsp.params)
  IN IF InvokesNext(TopHandler(dsp))
     THEN Call([ds EXCEPT ![d] =
                  [dsp EXCEPT !.frames[Len(dsp.frames)].state = "awaiting",
                              !.invoked = @ \cup {top.depth}]],
               d, top.depth + 1)
     ELSE IF res.t = "undefined" /\ top.depth + 1 < Len(dsp.stack)
     THEN Call([ds EXCEPT ![d] = [dsp EXCEPT !.frames = Pop(@)]], d, top.depth + 1)
     ELSE [dsp EXCEPT !.frames = Pop(@), !.ret = NextReturns(res)]

\* the handler on top runs: it invokes next, the context's
\* () => _next(depth + 1), and awaits it, or it ends
run(ds, d) ==
  LET dsp == ds[d]
      top == Top(dsp)
  IN IF InvokesNext(TopHandler(dsp))
     THEN Call([ds EXCEPT ![d] =
                  [dsp EXCEPT !.frames[Len(dsp.frames)].state = "awaiting",
                              !.invoked = @ \cup {top.depth}]],
               d, top.depth + 1)
     ELSE [dsp EXCEPT !.frames = Pop(@),
                      !.ret = NextReturns(Ends(TopHandler(dsp), dsp.params))]

\* the handler on top, which awaited next(), takes what it yielded and ends
resume(ds, d) ==
  LET dsp == ds[d]
  IN [dsp EXCEPT !.frames = Pop(@),
                 !.ret = NextReturns(Continues(TopHandler(dsp), dsp.params, dsp.ret))]

\* the promise of handle settles and fetch returns or rejects
complete(ds, d) ==
  [ds[d] EXCEPT !.pc = "done", !.result = Settled(ds[d].ret), !.ret = NoValue]

\* ------------------------------------------------------------------ inputs
GET == <<"GET">>

POST == <<"POST">>

Methods == {GET, POST}

Literals == {<<"a">>, <<"b">>}

Captures == {<<":", "x">>, <<":", "y">>}

SeqsUpTo(S, n) == UNION {[1..k -> S] : k \in 0..n}

\* the path string of a sequence of slugs: "/" alone, or "/" before each slug
Render(slugs) == IF slugs = <<>> THEN SLASH ELSE SLASH \o Join(slugs)

\* registration inputs: every sequence of slugs, a catch-all in any position
Paths == {Render(s) : s \in SeqsUpTo(Literals \cup Captures \cup {STAR}, MaxSegs)}

DeepPaths ==
  {Render(s) : s \in SeqsUpTo({<<"a">>, <<":", "x">>, STAR}, MaxDeepSegs)}

Pathnames == {Render(s) : s \in SeqsUpTo(Literals, MaxReqSegs)}

\* the handler lists registered: one handler that responds
Chains == {<<"respond">>}

\* for the dispatches taken step by step: a literal and a capture route,
\* requests that match both or the capture only, and every list of up to
\* MaxChain handlers of every kind
ChainPaths == {Render(<<(<<"a">>)>>), Render(<<(<<":", "x">>)>>)}

ChainPathnames == {Render(<<(<<"a">>)>>), Render(<<(<<"b">>)>>)}

Kinds ==
  {"respond", "nothing", "throw", "suspend", "next", "nextRespond", "nextThrow"}

ChainsUpTo(n) == UNION {[1..k -> Kinds] : k \in 1..n}

\* for the dispatches in flight together: lists of MaxChain handlers
ConcChains ==
  {[i \in 1..MaxChain |-> IF i < MaxChain THEN kind ELSE "respond"] :
     kind \in {"next", "nextRespond", "nextThrow"}}

\* the caller's handlers for one registration, each tagged with the call
Handlers(method, path, kinds) ==
  [i \in 1..Len(kinds) |-> [kind |-> kinds[i], tag |-> <<method, path, i>>]]

\* ----------------------------------------------------------------- actions
\* call is the call in progress and outcome what it ended with; the caller
\* makes one call at a time and takes its outcome before the next.
\* registered is the history of the calls of on that returned: the set of
\* their <<method, path>>.
NoCall == [op |-> "none", method |-> Null, path |-> Null]

NoOutcome == [t |-> "none", status |-> 0, body |-> Null]

Returned_ == [t |-> "returned", status |-> 0, body |-> Null]

Init ==
  /\ routes = <<>>
  /\ methods = <<>>
  /\ registered = {}
  /\ call = NoCall
  /\ outcome = NoOutcome
  /\ dispatches = [d \in 1..MaxDispatches |-> Idle]

\* router.on(method, path, ...handlers), with at most max routes recorded
On(method, path, kinds, max) ==
  LET r == on(routes, methods, method, path, Handlers(method, path, kinds))
  IN /\ call = NoCall
     /\ r.thrown # Null \/ Cardinality(DOMAIN routes) < max
     /\ routes' = r.routes
     /\ methods' = r.methods
     /\ registered' = IF r.thrown = Null
                      THEN registered \cup {<<method, path>>} ELSE registered
     /\ call' = [op |-> "on", method |-> method, path |-> path]
     /\ outcome' = IF r.thrown = Null THEN Returned_ ELSE Thrown(r.thrown[1])
     /\ UNCHANGED dispatches

\* router.fetch(req)
Fetch(method, pathname) ==
  /\ call = NoCall
  /\ call' = [op |-> "fetch", method |-> method, path |-> pathname]
  /\ outcome' = fetch(methods, method, pathname)
  /\ UNCHANGED <<routes, methods, registered, dispatches>>

\* the caller takes the outcome of its call
Settle ==
  /\ call # NoCall
  /\ call' = NoCall
  /\ outcome' = NoOutcome
  /\ UNCHANGED <<routes, methods, registered, dispatches>>

Next ==
  \/ \E method \in Methods, path \in Paths, kinds \in Chains :
        On(method, path, kinds, MaxRoutes)
  \/ \E method \in Methods, pathname \in Pathnames : Fetch(method, pathname)
  \/ \E r \in registered : Fetch(r[1], r[2])
  \/ Settle

Spec == Init /\ [][Next]_vars

\* one method, deeper patterns, more routes
NextDeep ==
  \/ \E path \in DeepPaths, kinds \in Chains : On(GET, path, kinds, MaxDeepRoutes)
  \/ \E pathname \in Pathnames : Fetch(GET, pathname)
  \/ \E r \in registered : Fetch(r[1], r[2])
  \/ Settle

SpecDeep == Init /\ [][NextDeep]_vars

\* router.fetch(req) of a dispatch taken step by step, in the lowest free
\* slot
Begin(d, method, pathname) ==
  LET look == lookup(routes, methods, method, pathname)
  IN /\ dispatches[d].pc = "idle"
     /\ \A e \in 1..(d - 1) : dispatches[e].pc # "idle"
     /\ routes' = look.routes
     /\ methods' = look.methods
     /\ dispatches' =
          [dispatches EXCEPT ![d] =
             [begin(dispatches, d, method, pathname, look.endpoint)
                EXCEPT !.alone = fetch(methods, method, pathname)]]
     /\ UNCHANGED <<registered, call, outcome>>

Running(d) == dispatches[d].pc = "running" /\ dispatches[d].frames # <<>>

\* a handler that was called runs; one that suspends never does
Run(d) ==
  /\ Running(d)
  /\ Top(dispatches[d]).state = "started"
  /\ TopHandler(dispatches[d]).kind # "suspend"
  /\ dispatches' = [dispatches EXCEPT ![d] = run(dispatches, d)]
  /\ UNCHANGED <<routes, methods, registered, call, outcome>>

\* a handler that awaits next() takes what it yielded
Resume(d) ==
  /\ Running(d)
  /\ Top(dispatches[d]).state = "awaiting"
  /\ dispatches[d].ret # NoValue
  /\ dispatches' = [dispatches EXCEPT ![d] = resume(dispatches, d)]
  /\ UNCHANGED <<routes, methods, registered, call, outcome>>

\* handler 0 has returned or thrown
Complete(d) ==
  /\ dispatches[d].pc = "running"
  /\ dispatches[d].frames = <<>>
  /\ dispatches' = [dispatches EXCEPT ![d] = complete(dispatches, d)]
  /\ UNCHANGED <<routes, methods, registered, call, outcome>>

\* the caller takes the response or the error
Take(d) ==
  /\ dispatches[d].pc = "done"
  /\ dispatches' = [dispatches EXCEPT ![d] = Idle]
  /\ UNCHANGED <<routes, methods, registered, call, outcome>>

\* one dispatch at a time, every handler list
NextChain ==
  \/ \E path \in ChainPaths, kinds \in ChainsUpTo(MaxChain) :
        On(GET, path, kinds, MaxChainRoutes)
  \/ Settle
  \/ \E method \in Methods, pathname \in ChainPathnames : Begin(1, method, pathname)
  \/ Run(1)
  \/ Resume(1)
  \/ Complete(1)
  \/ Take(1)

SpecChain == Init /\ [][NextChain]_vars

\* dispatches in flight together
NextConc ==
  \/ \E path \in ChainPaths, kinds \in ConcChains : On(GET, path, kinds, MaxRoutes)
  \/ Settle
  \/ \E d \in 1..MaxDispatches, pathname \in ChainPathnames : Begin(d, GET, pathname)
  \/ \E d \in 1..MaxDispatches : Run(d)
  \/ \E d \in 1..MaxDispatches : Resume(d)
  \/ \E d \in 1..MaxDispatches : Complete(d)
  \/ \E d \in 1..MaxDispatches : Take(d)

SpecConc == Init /\ [][NextConc]_vars

\* a path with every slash written twice
RECURSIVE Doubled(_)
Doubled(s) ==
  IF s = <<>> THEN <<>>
  ELSE (IF Head(s) = "/" THEN <<"/", "/">> ELSE <<Head(s)>>) \o Doubled(Tail(s))

\* registration inputs with and without a trailing slash, and one with a
\* doubled slash
SlashPaths ==
  UNION {{Render(slugs), Render(slugs) \o SLASH} :
           slugs \in {<<>>, <<(<<"a">>)>>, <<(<<":", "x">>)>>, <<(<<"a">>), STAR>>,
                      <<(<<":", "x">>), <<"b">>>>}}
  \cup {Doubled(Render(<<(<<"a">>)>>))}

\* request paths as they are, with a trailing slash, with doubled slashes
SlashPathnames ==
  UNION {{Render(segs), Render(segs) \o SLASH, Doubled(Render(segs))} :
           segs \in SeqsUpTo(Literals, MaxSegs)}

\* one method, paths and requests with empty segments
NextSlash ==
  \/ \E path \in SlashPaths, kinds \in Chains : On(GET, path, kinds, MaxRoutes)
  \/ \E pathname \in SlashPathnames : Fetch(GET, pathname)
  \/ Settle

SpecSlash == Init /\ [][NextSlash]_vars

\* registration inputs for nested catch-alls: a catch-all, catch-alls one
\* slug deeper under a literal and under a capture, and routes that go
\* deeper still
NestedPaths ==
  {Render(<<(<<"a">>), STAR>>),
   Render(<<(<<"a">>), <<"a">>, STAR>>),
   Render(<<(<<"a">>), <<":", "x">>, STAR>>),
   Render(<<(<<"a">>), <<"a">>, <<"b">>, <<"a">>>>),
   Render(<<(<<"a">>), <<"b">>, <<"b">>, <<":", "x">>>>),
   Render(<<(<<"b">>)>>)}

\* one method, nested catch-alls
NextNested ==
  \/ \E path \in NestedPaths, kinds \in Chains : On(GET, path, kinds, MaxDeepRoutes)
  \/ \E pathname \in Pathnames : Fetch(GET, pathname)
  \/ Settle

SpecNested == Init /\ [][NextNested]_vars

\* ------------------------------------------------------------ properties
\* What the claims speak of, computed from the paths themselves and not
\* from the router's tables.
IsCapture(slug) == slug[1] = ":"

IsCatchAll(slug) == slug = STAR

\* the slugs of a path, every capture replaced by one shared marker
Shape(path) ==
  LET pattern == Segments(path)
  IN [i \in 1..Len(pattern) |->
        IF IsCapture(pattern[i]) THEN <<"capture">> ELSE pattern[i]]

SameShape(r, method, path) == r[1] = method /\ Shape(r[2]) = Shape(path)

ConflictError(method, path, previous) ==
  [t |-> "thrown", status |-> 0,
   body |-> <<(<<"route conflict", method, path, previous>>)>>]

IsConflict(o) == o.t = "thrown" /\ o.body[1][1] = "route conflict"

IsInvalid(o) == o.t = "thrown" /\ o.body[1][1] = "invalid route"

\* C1: a call of on whose path has, under its method, the shape of a path
\* registered before (capture names ignored) throws the route-conflict
\* error, which names the method, then the new path, then the path of the
\* earlier registration.
C1_ConflictNamesNewThenOld ==
  [][(/\ call.op = "none"
      /\ call'.op = "on"
      /\ \E r \in registered : SameShape(r, call'.method, call'.path))
     => \E r \in registered :
          /\ SameShape(r, call'.method, call'.path)
          /\ outcome' = ConflictError(call'.method, call'.path, r[2])]_vars

\* a conflict between two paths that differ in a capture name
C1_Witness ==
  /\ call.op = "on"
  /\ IsConflict(outcome)
  /\ outcome.body[1][3] = call.path
  /\ outcome.body[1][4] # call.path
  /\ <<call.method, outcome.body[1][4]>> \in registered

\* C2: a call of on throws the route-conflict error only if a path of the
\* same shape was registered before under the same method; the same path or
\* shape under another method never conflicts, in either order.
C2_ConflictsAreMethodScoped ==
  [][(/\ call.op = "none"
      /\ call'.op = "on"
      /\ IsConflict(outcome'))
     => \E r \in registered : SameShape(r, call'.method, call'.path)]_vars

\* a registration that returned although the same path is registered under
\* the other method
C2_Witness ==
  /\ call.op = "on"
  /\ outcome = Returned_
  /\ \E r \in registered : r[1] # call.method /\ r[2] = call.path
  /\ Len(Segments(call.path)) = MaxSegs

\* C3: a call of on that throws (invalid route or route conflict) leaves the
\* signature table and every method trie as they were, and every dispatch
\* returns after it what it returned before it.
C3_FailedCallChangesNothing ==
  [][(/\ call.op = "none"
      /\ call'.op = "on"
      /\ outcome'.t = "thrown")
     => /\ routes' = routes
        /\ methods' = methods
        /\ \A method \in Methods, pathname \in Pathnames :
              fetch(methods', method, pathname) = fetch(methods, method, pathname)]_vars

\* an invalid path refused by a router that holds routes
C3_Witness ==
  /\ call.op = "on"
  /\ IsInvalid(outcome)
  /\ registered # {}
  /\ call.method \in DOMAIN methods

\* the slugs of the path of the request in call
ReqSegs == Segments(call.path)

SlugMatches(slug, seg) == IsCapture(slug) \/ slug = seg

\* the path matches the whole request: slug by slug, a final catch-all
\* taking one or more remaining segments
RouteMatches(path, segs) ==
  LET pattern == Segments(path)
      n == Len(pattern)
  IN IF n > 0 /\ IsCatchAll(pattern[n])
     THEN /\ Len(segs) >= n
          /\ \A i \in 1..(n - 1) : SlugMatches(pattern[i], segs[i])
     ELSE /\ Len(segs) = n
          /\ \A i \in 1..n : SlugMatches(pattern[i], segs[i])

\* the registered routes of the method that match the whole request
Matching(method, segs) ==
  {r \in registered : r[1] = method /\ RouteMatches(r[2], segs)}

\* the dispatch ran the handler chain registered for r
Ran(r) ==
  /\ outcome.t = "response"
  /\ outcome.status = 200
  /\ outcome.body # Null
  /\ outcome.body[1].handler = <<r[1], r[2], 1>>

\* the last slug of the route's path is a literal, a capture, a catch-all
EndsInLiteral(r) ==
  LET pattern == Segments(r[2])
  IN /\ Len(pattern) > 0
     /\ ~IsCapture(pattern[Len(pattern)])
     /\ ~IsCatchAll(pattern[Len(pattern)])

EndsInCapture(r) ==
  LET pattern == Segments(r[2])
  IN Len(pattern) > 0 /\ IsCapture(pattern[Len(pattern)])

EndsInCatchAll(r) ==
  LET pattern == Segments(r[2])
  IN Len(pattern) > 0 /\ IsCatchAll(pattern[Len(pattern)])

\* r and q end at children of one trie node
Siblings(r, q) ==
  LET n == Len(Segments(r[2]))
  IN /\ n > 0
     /\ Len(Segments(q[2])) = n
     /\ SubSeq(Shape(r[2]), 1, n - 1) = SubSeq(Shape(q[2]), 1, n - 1)

\* C4: static beats capture.  When the routes that match the request are a
\* route ending in a literal and its sibling ending in a capture, the
\* dispatch runs the chain of the route ending in the literal.
C4_StaticBeatsCapture ==
  call.op = "fetch" =>
    \A s, c \in Matching(call.method, ReqSegs) :
      (/\ Matching(call.method, ReqSegs) = {s, c}
       /\ Siblings(s, c)
       /\ EndsInLiteral(s)
       /\ EndsInCapture(c))
      => Ran(s)

\* C5: a catch-all is passed over for a static or capture sibling.  When the
\* routes that match the request are a catch-all route and one sibling of
\* the catch-all ending in a literal or a capture, the dispatch runs the
\* sibling's chain.
C5_CatchAllIsLast ==
  call.op = "fetch" =>
    \A k, s \in Matching(call.method, ReqSegs) :
      (/\ Matching(call.method, ReqSegs) = {k, s}
       /\ Siblings(k, s)
       /\ EndsInCatchAll(k)
       /\ ~EndsInCatchAll(s))
      => Ran(s)

\* C6: matching backtracks on the full suffix.  When some registered route
\* of the method matches the whole request path, the dispatch runs the chain
\* of a route that matches it: it does not return 404.
C6_BacktracksOnFullSuffix ==
  (call.op = "fetch" /\ Matching(call.method, ReqSegs) # {})
    => \E r \in Matching(call.method, ReqSegs) : Ran(r)

\* C7: when the only route that matches the request is a catch-all route,
\* the dispatch runs its chain, and '*' covers the request segments from the
\* depth of the catch-all on.
C7_CatchAllAfterExhausting ==
  call.op = "fetch" =>
    \A k \in Matching(call.method, ReqSegs) :
      (Matching(call.method, ReqSegs) = {k} /\ EndsInCatchAll(k))
      => /\ Ran(k)
         /\ STAR \in DOMAIN outcome.body[1].params
         /\ outcome.body[1].params[STAR].v
              \in {Slice(ReqSegs, Len(Segments(k[2])) - 1),
                   Join(Slice(ReqSegs, Len(Segments(k[2])) - 1))}

\* the dispatch ran a handler chain, which responded
Responded == call.op = "fetch" /\ outcome.t = "response" /\ outcome.status = 200

\* the slugs of the path of the route whose chain responded, and the params
\* the chain was given
RanPattern == Segments(outcome.body[1].handler[2])

RanParams == outcome.body[1].params

\* C8: the value bound to '*' is one string, the request segments from the
\* depth of the catch-all to the end joined with '/'.
C8_CatchAllIsJoinedString ==
  (Responded /\ STAR \in DOMAIN RanParams)
    => /\ RanParams[STAR].t = "string"
       /\ RanParams[STAR].v = Join(Slice(ReqSegs, Len(RanPattern) - 1))

\* the members of a set of numbers in ascending order
RECURSIVE Ascending(_)
Ascending(S) ==
  IF S = {} THEN <<>>
  ELSE LET least == CHOOSE m \in S : \A n \in S : m <= n
       IN <<least>> \o Ascending(S \ {least})

\* C9: a capture name that occurs once in the matched route is bound to a
\* string; a name that occurs k >= 2 times is bound to the array of exactly
\* the k request segments at its depths, from left to right.
C9_RepeatedNamesCollect ==
  Responded =>
    \A i \in 1..Len(RanPattern) :
      IsCapture(RanPattern[i]) =>
        LET name == Slice(RanPattern[i], 1)
            depths == Ascending({j \in 1..Len(RanPattern) :
                                   RanPattern[j] = RanPattern[i]})
        IN /\ name \in DOMAIN RanParams
           /\ IF Len(depths) = 1
              THEN /\ RanParams[name].t = "string"
                   /\ RanParams[name].v = ReqSegs[i]
              ELSE /\ RanParams[name].t = "array"
                   /\ RanParams[name].v =
                        [j \in 1..Len(depths) |-> ReqSegs[depths[j]]]

\* a name that occurs three times, bound to three segments not all equal
C9_Witness ==
  /\ Responded
  /\ \E name \in DOMAIN RanParams :
        /\ RanParams[name].t = "array"
        /\ Len(RanParams[name].v) = 3
        /\ RanParams[name].v[1] # RanParams[name].v[3]

\* C10: the params of a dispatch hold the capture names of the matched
\* route and no other name, and every capture of the matched route is bound
\* to the request segment at the capture's own depth.
C10_BindingIsPositionalPerRoute ==
  Responded =>
    /\ DOMAIN RanParams =
         {Slice(RanPattern[i], 1) :
            i \in {j \in 1..Len(RanPattern) : IsCapture(RanPattern[j])}}
         \cup {RanPattern[i] :
                 i \in {j \in 1..Len(RanPattern) : IsCatchAll(RanPattern[j])}}
    /\ \A i \in 1..Len(RanPattern) :
         IsCapture(RanPattern[i]) =>
           LET value == RanParams[Slice(RanPattern[i], 1)]
           IN \/ value.t = "string" /\ value.v = ReqSegs[i]
              \/ /\ value.t = "array"
                 /\ \E j \in 1..Len(value.v) : value.v[j] = ReqSegs[i]

\* the matched route shares its capture node with a route that names the
\* capture differently, and the capture is not the first segment bound
C10_Witness ==
  /\ Responded
  /\ Len(RanPattern) = 2
  /\ IsCapture(RanPattern[1])
  /\ \E r \in registered :
        /\ r[1] = call.method
        /\ Len(Segments(r[2])) = 1
        /\ IsCapture(Segments(r[2])[1])
        /\ Segments(r[2])[1] # RanPattern[1]
  /\ DOMAIN RanParams = {Slice(RanPattern[1], 1)}
  /\ ReqSegs[1] # ReqSegs[2]

\* C11: a dispatch that no registered route of its method matches returns
\* status 404 and runs no handler: the method has no route at all (whatever
\* the other method has), or none of its routes matches the path, or the
\* path is only a proper prefix of its routes.
C11_NoMatchIs404 ==
  (call.op = "fetch" /\ Matching(call.method, ReqSegs) = {})
    => outcome = Response(404, Null)

\* a 404 for a path that a route of the other method matches and that is a
\* proper prefix of the only route of its own method
C11_Witness ==
  /\ call.op = "fetch"
  /\ outcome = Response(404, Null)
  /\ \E r \in registered : r[1] # call.method /\ RouteMatches(r[2], ReqSegs)
  /\ \E r \in registered :
        /\ r[1] = call.method
        /\ Len(Segments(r[2])) > Len(ReqSegs)
        /\ SubSeq(Segments(r[2]), 1, Len(ReqSegs)) = ReqSegs
        /\ ReqSegs # <<>>

\* the handlers before handler i (counted from 1) all return next()
LeadingNexts(stack, i) == \A j \in 1..(i - 1) : stack[j].kind = "next"

\* the dispatch in slot d has ended and had matched a route
Ended(d) == dispatches[d].pc = "done" /\ dispatches[d].stack # <<>>

\* C12: the handlers run as a continuation chain from handler 0.  The
\* frames in flight are those of handlers 0, 1, 2, ... in order; what a
\* responding handler i+1 returns is what next() yields to handler i; and
\* for a chain of handlers that return next() followed by a handler that
\* responds, the dispatch returns that handler's response, every handler up
\* to it having been called once, in order.
C12_ChainContinues ==
  \A d \in DOMAIN dispatches :
    LET dsp == dispatches[d]
    IN /\ \A k \in 1..Len(dsp.frames) : dsp.frames[k].depth = k - 1
       /\ (/\ dsp.pc = "running"
           /\ dsp.frames # <<>>
           /\ Top(dsp).state = "awaiting"
           /\ dsp.ret # NoValue
           /\ Top(dsp).depth + 2 <= Len(dsp.stack)
           /\ dsp.stack[Top(dsp).depth + 2].kind = "respond")
          => dsp.ret = Ok(dsp.stack[Top(dsp).depth + 2], dsp.params)
       /\ Ended(d) =>
            \A i \in 1..Len(dsp.stack) :
              (LeadingNexts(dsp.stack, i) /\ dsp.stack[i].kind = "respond")
              => /\ dsp.result = Ok(dsp.stack[i], dsp.params)
                 /\ dsp.started = [j \in 1..i |-> j - 1]

\* the chain [h1 returns next(), h2 responds] has returned h2's response
C12_Witness ==
  \E d \in DOMAIN dispatches :
    /\ Ended(d)
    /\ Len(dispatches[d].stack) = 2
    /\ dispatches[d].stack[1].kind = "next"
    /\ dispatches[d].stack[2].kind = "respond"
    /\ dispatches[d].result.status = 200
    /\ dispatches[d].result.body[1].handler = dispatches[d].stack[2].tag

\* C13: when the last handler of the matched chain returns nothing, and the
\* handlers before it (if any) returned next(), the dispatch returns status
\* 501.
C13_FinalNothingIs501 ==
  \A d \in DOMAIN dispatches :
    LET stack == dispatches[d].stack
    IN (/\ Ended(d)
        /\ LeadingNexts(stack, Len(stack))
        /\ stack[Len(stack)].kind = "nothing")
       => dispatches[d].result = Response(501, Null)

\* the chain [h1 returns next(), h2 returns nothing] has ended with 501
C13_Witness ==
  \E d \in DOMAIN dispatches :
    /\ Ended(d)
    /\ Len(dispatches[d].stack) = 2
    /\ dispatches[d].stack[1].kind = "next"
    /\ dispatches[d].stack[2].kind = "nothing"
    /\ dispatches[d].started = <<0, 1>>
    /\ dispatches[d].result.status = 501

\* C14: a handler that is not the last, returns nothing and did not invoke
\* next falls through: for the chain [h1 returns nothing, h2 responds] the
\* dispatch returns h2's response.
C14_NonFinalNothingFallsThrough ==
  \A d \in DOMAIN dispatches :
    LET stack == dispatches[d].stack
    IN (/\ Ended(d)
        /\ Len(stack) >= 2
        /\ stack[1].kind = "nothing"
        /\ stack[2].kind = "respond")
       => dispatches[d].result = Ok(stack[2], dispatches[d].params)

\* C15: the chain of one dispatch is strictly sequential.  The handlers
\* called are handler 0, then 1, then 2, ..., each at most once; handler
\* i+1 is called only when handler i has invoked next; so once a handler
\* has not invoked next (it returned, threw or is suspended) no handler
\* after it is called.
C15_StrictlySequential ==
  \A d \in DOMAIN dispatches :
    LET dsp == dispatches[d]
    IN /\ \A k \in 1..Len(dsp.started) : dsp.started[k] = k - 1
       /\ \A k \in 2..Len(dsp.started) : (dsp.started[k] - 1) \in dsp.invoked
       /\ \A i \in 0..(Len(dsp.stack) - 1) :
            i \notin dsp.invoked =>
              \A k \in 1..Len(dsp.started) : dsp.started[k] <= i

\* a chain of two handlers has ended with only handler 0 called, which
\* returned nothing
C15_Witness ==
  \E d \in DOMAIN dispatches :
    /\ Ended(d)
    /\ Len(dispatches[d].stack) = 2
    /\ dispatches[d].stack[1].kind = "nothing"
    /\ dispatches[d].started = <<0>>
    /\ dispatches[d].invoked = {}

\* the frame on top ends in this step with the error of its own handler
Throws(dsp) ==
  /\ dsp.pc = "running"
  /\ dsp.frames # <<>>
  /\ \/ Top(dsp).state = "started" /\ TopHandler(dsp).kind = "throw"
     \/ /\ Top(dsp).state = "awaiting"
        /\ TopHandler(dsp).kind = "nextThrow"
        /\ dsp.ret.t \in {"response", "undefined"}

\* C16: an error thrown by a handler, at any depth, before or after it
\* invoked next, reaches the caller of the dispatch.  When a handler throws,
\* its error is what is on the way up; an error on the way up stays the same
\* error at every step, no handler is called while it is, and the dispatch
\* ends with it as its failure, never with a response.
C16_ErrorsPropagate ==
  [][\A d \in DOMAIN dispatches :
       LET a == dispatches[d]
           b == dispatches'[d]
       IN /\ (Throws(a) /\ b # a)
             => b.ret = Failure(TopHandler(a)) /\ Len(b.frames) < Len(a.frames)
          /\ (a.pc = "running" /\ a.ret.t = "thrown" /\ b # a)
             => /\ b.started = a.started
                /\ b.pc \in {"running", "done"}
                /\ b.pc = "running" => b.ret = a.ret
                /\ b.pc = "done" => b.result = a.ret]_vars

\* the error thrown by handler 1 is the failure of a dispatch whose handler
\* 0 awaited next() and would have responded
C16_Witness ==
  \E d \in DOMAIN dispatches :
    /\ Ended(d)
    /\ Len(dispatches[d].stack) = 2
    /\ dispatches[d].stack[1].kind = "nextRespond"
    /\ dispatches[d].stack[2].kind = "throw"
    /\ dispatches[d].result = Failure(dispatches[d].stack[2])

\* '*' is a slug of the path other than the last one
StarNotLast(path) ==
  LET pattern == Segments(path)
  IN \E i \in 1..(Len(pattern) - 1) : pattern[i] = STAR

\* in the trie under node, a catch-all node has no child and no static or
\* capture node has the token '*'
RECURSIVE CatchAllsAreLeaves(_)
CatchAllsAreLeaves(node) ==
  /\ node.catchAllChild # Null =>
        LET leaf == node.catchAllChild[1]
        IN /\ leaf.catchAllChild = Null
           /\ leaf.dynamicChild = Null
           /\ DOMAIN leaf.staticChildren = {}
           /\ leaf.endpoint # Null
  /\ node.dynamicChild # Null => CatchAllsAreLeaves(node.dynamicChild[1])
  /\ \A t \in DOMAIN node.staticChildren :
        t # STAR /\ CatchAllsAreLeaves(node.staticChildren[t])

CaptureInPlaceOfCatchAll(r) ==
  LET n == Len(Segments(r[2]))
  IN /\ EndsInCatchAll(r)
     /\ \E q \in registered :
           /\ q[1] = r[1]
           /\ Len(Segments(q[2])) >= n
           /\ IsCapture(Segments(q[2])[n])
           /\ SubSeq(Shape(q[2]), 1, n - 1) = SubSeq(Shape(r[2]), 1, n - 1)

C19_DispatchChangesNoRouterState ==
  [][dispatches' # dispatches => routes' = routes /\ methods' = methods]_vars

\* a dispatch of a method without routes has ended with 404 on a router
\* that holds a route of the other method
C19_Witness ==
  \E d \in DOMAIN dispatches :
    /\ dispatches[d].pc = "done"
    /\ dispatches[d].result = Response(404, Null)
    /\ dispatches[d].method \notin DOMAIN methods
    /\ DOMAIN methods # {}
    /\ DOMAIN routes # {}

\* C20: dispatches in flight together are independent.  Whatever the order
\* of their handler steps, a dispatch ends with what fetch returns for its
\* request when it runs alone, its params are those bound from its own
\* path, and its frames are those of its own handlers 0, 1, 2, ...
C20_ConcurrentDispatchesIndependent ==
  \A d \in DOMAIN dispatches :
    LET dsp == dispatches[d]
    IN /\ dsp.pc = "done" => dsp.result = dsp.alone
       /\ \A name \in DOMAIN dsp.params :
            dsp.params[name] = Str(Segments(dsp.path)[1])
       /\ \A k \in 1..Len(dsp.frames) : dsp.frames[k].depth = k - 1

\* two dispatches that were in flight together have both ended, one with
\* a response that carries its own params and one with its handler's error
C20_Witness ==
  /\ Ended(1)
  /\ Ended(2)
  /\ dispatches[1].path # dispatches[2].path
  /\ dispatches[1].params # dispatches[2].params
  /\ dispatches[1].result.t = "response"
  /\ dispatches[1].result.body[1].params = dispatches[1].params
  /\ dispatches[2].result.t = "thrown"

\* the trie under node has the shape of the claim: at most one endpoint,
\* one capture child (token ':') and one catch-all child (token '*', a leaf
\* that holds an endpoint), and static children under pairwise distinct
\* literals, each child holding the literal it is filed under
RECURSIVE WellShaped(_)
WellShaped(node) ==
  /\ Len(node.endpoint) <= 1
  /\ Len(node.dynamicChild) <= 1
  /\ Len(node.catchAllChild) <= 1
  /\ node.dynamicChild # Null =>
        /\ node.dynamicChild[1].token = COLON
        /\ WellShaped(node.dynamicChild[1])
  /\ node.catchAllChild # Null =>
        LET leaf == node.catchAllChild[1]
        IN /\ leaf.token = STAR
           /\ leaf.endpoint # Null
           /\ Len(leaf.endpoint) = 1
           /\ leaf.dynamicChild = Null
           /\ leaf.catchAllChild = Null
           /\ DOMAIN leaf.staticChildren = {}
  /\ \A t \in DOMAIN node.staticChildren :
        /\ t # STAR
        /\ ~StartsWithColon(t)
        /\ node.staticChildren[t].token = t
        /\ WellShaped(node.staticChildren[t])

\* C21: after any sequence of calls of on, every node of every method trie
\* has at most one capture child, at most one catch-all child, static
\* children with pairwise distinct literals and at most one endpoint, and
\* every catch-all node has no children and holds an endpoint.
C21_TrieShape ==
  \A method \in DOMAIN methods :
    methods[method].token = SLASH /\ WellShaped(methods[method])

\* a node with a static child, a capture child and a catch-all child
C21_Witness ==
  \E method \in DOMAIN methods :
    \E t \in DOMAIN methods[method].staticChildren :
      LET node == methods[method].staticChildren[t]
      IN /\ DOMAIN node.staticChildren # {}
         /\ node.dynamicChild # Null
         /\ node.catchAllChild # Null

\* every slug of the route's path is a literal
IsStatic(r) ==
  \A i \in 1..Len(Segments(r[2])) :
    ~IsCapture(Segments(r[2])[i]) /\ ~IsCatchAll(Segments(r[2])[i])

\* the request follows the static route s past the depth of the catch-all
\* of k and then has a segment that differs from s
FailsAfter(s, k, segs) ==
  LET sp == Segments(s[2])
      n == Len(Segments(k[2]))
  IN \E i \in (n + 1)..Len(sp) :
       /\ i <= Len(segs)
       /\ segs[i] # sp[i]
       /\ \A j \in 1..(i - 1) : segs[j] = sp[j]

\* C22: a static route that matches the whole request through a deeper
\* suffix outranks a shallower catch-all that matches it too: its chain is
\* run.  And with a catch-all route and a deeper static route the only
\* routes of the method, a request that follows the static route past the
\* catch-all's depth and then differs from it runs the catch-all's chain,
\* with '*' covering the segments from the catch-all's depth on.
C22_DeeperStaticOutranksCatchAll ==
  call.op = "fetch" =>
    /\ \A s, k \in Matching(call.method, ReqSegs) :
         (/\ IsStatic(s)
          /\ EndsInCatchAll(k)
          /\ Len(Segments(k[2])) < Len(Segments(s[2])))
         => Ran(s)
    /\ \A s, k \in registered :
         (/\ {r \in registered : r[1] = call.method} = {s, k}
          /\ IsStatic(s)
          /\ EndsInCatchAll(k)
          /\ RouteMatches(k[2], ReqSegs)
          /\ FailsAfter(s, k, ReqSegs))
         => /\ Ran(k)
            /\ RanParams[STAR].v
                 \in {Slice(ReqSegs, Len(Segments(k[2])) - 1),
                      Join(Slice(ReqSegs, Len(Segments(k[2])) - 1))}

\* /a/a/a is run for GET /a/a/a although /a/* matches it too
C22_Witness ==
  /\ call.op = "fetch"
  /\ \E s, k \in Matching(call.method, ReqSegs) :
        /\ IsStatic(s)
        /\ Len(Segments(s[2])) = 3
        /\ EndsInCatchAll(k)
        /\ Len(Segments(k[2])) = 2
        /\ Ran(s)

\* C23: for every trie built by registration and every request, the
\* iterative Router.match selects the endpoint (or none) that the recursive
\* Slug.match selects on the same trie.
C23_IterativeMatchesAsRecursive ==
  \A method \in DOMAIN methods, pathname \in Pathnames :
    match(methods[method], RequestRoute(pathname))
      = matchRecursive(methods[method], RequestRoute(pathname))

\* one or more characters of the class of literals and capture names
IsWord(s) == Len(s) > 0 /\ \A i \in 1..Len(s) : s[i] \in {"a", "b", "x", "y"}

\* the path grammar: "/" alone, or "/seg" once or more, each seg a literal
\* or a capture, the last one possibly a lone "*"
InGrammar(path) ==
  \/ path = SLASH
  \/ LET segs == Segments(path)
     IN /\ Len(segs) >= 1
        /\ path = Render(segs)
        /\ \A i \in 1..Len(segs) :
              \/ IsWord(segs[i])
              \/ segs[i][1] = ":" /\ IsWord(Tail(segs[i]))
              \/ i = Len(segs) /\ segs[i] = STAR

\* C24: registration accepts every path of the grammar and nothing else: a
\* call of on throws the invalid-route error exactly when its path is not
\* of the grammar; in particular "/*" is accepted.
C24_AcceptsExactlyTheGrammar ==
  call.op = "on" => (IsInvalid(outcome) <=> ~InGrammar(call.path))

\* every order of the routes of a set
Orders(S) ==
  {order \in [1..Cardinality(S) -> S] :
     \A i, j \in 1..Cardinality(S) : i # j => order[i] # order[j]}

\* the tries of a new router after the registrations of order, one by one
RECURSIVE Registering(_, _, _)
Registering(rs, ms, order) ==
  IF order = <<>> THEN ms
  ELSE LET r == on(rs, ms, order[1][1], order[1][2],
                   Handlers(order[1][1], order[1][2], <<"respond">>))
       IN Registering(r.routes, r.methods, Tail(order))

\* C25: the outcome of matching does not depend on the order of
\* registration: after a registration, a router given the same routes in
\* any other order dispatches every request to the same chain with the same
\* parameters.
C25_OrderOfRegistrationIrrelevant ==
  (call.op = "on" /\ outcome = Returned_) =>
    \A order \in Orders(registered) :
      LET ms == Registering(<<>>, <<>>, order)
      IN \A method \in DOMAIN methods, pathname \in Pathnames :
           fetch(ms, method, pathname) = fetch(methods, method, pathname)

\* three routes registered, two of which match one request
C25_Witness ==
  /\ call.op = "on"
  /\ outcome = Returned_
  /\ Cardinality(registered) = MaxDeepRoutes
  /\ \E pathname \in Pathnames :
        /\ Cardinality(Matching(GET, Segments(pathname))) >= 2
        /\ fetch(methods, GET, pathname).status = 200

\* <<token path, endpoint>> of every node at or under node that holds an
\* endpoint, path being the token path of node
RECURSIVE Held(_, _)
Held(node, path) ==
  (IF node.endpoint # Null THEN {<<path, node.endpoint[1]>>} ELSE {})
  \cup (IF node.dynamicChild # Null
        THEN Held(node.dynamicChild[1], Append(path, COLON)) ELSE {})
  \cup (IF node.catchAllChild # Null
        THEN Held(node.catchAllChild[1], Append(path, STAR)) ELSE {})
  \cup UNION {Held(node.staticChildren[t], Append(path, t)) :
               t \in DOMAIN node.staticChildren}

\* <<method, token path, endpoint>> of every endpoint of every trie
AllHeld ==
  UNION {{<<method, h[1], h[2]>> : h \in Held(methods[method], <<>>)} :
           method \in DOMAIN methods}

\* the token path of a node is the shape of the path
HasShape(tokens, path) ==
  /\ Len(tokens) = Len(Shape(path))
  /\ \A i \in 1..Len(tokens) :
        IF Shape(path)[i] = <<"capture">> THEN tokens[i] = COLON
        ELSE tokens[i] = Shape(path)[i]

\* the signature table has one entry per endpoint of the tries, under the
\* method and token path of its node, and its value is the path of the
\* registration the endpoint is of, the only one of that shape
InStep ==
  LET held == AllHeld
  IN /\ Cardinality(DOMAIN routes) = Cardinality(held)
     /\ DOMAIN routes = {Join(<<h[1]>> \o h[2]) : h \in held}
     /\ \A h \in held :
           LET path == h[3].handlers[1].tag[2]
           IN /\ routes[Join(<<h[1]>> \o h[2])] = path
              /\ <<h[1], path>> \in registered
              /\ HasShape(h[2], path)
              /\ \A r \in registered : SameShape(r, h[1], path) => r[2] = path
     /\ \A r \in registered : \E h \in held :
           h[1] = r[1] /\ h[3].handlers[1].tag[2] = r[2]

\* C26: after every call of on, successful or failed, the signature table
\* has exactly one entry per trie node that holds an endpoint, under the
\* node's method and token path, its value the path of the one successful
\* registration of that shape; and an endpoint once attached to a node is
\* never replaced or removed.
C26_TableAndTriesInStep ==
  [][IF call'.op = "on"
     THEN InStep' /\ AllHeld \subseteq AllHeld'
     ELSE routes' = routes /\ methods' = methods]_vars

\* a conflicting call on a router that holds two routes of one method
C26_Witness ==
  /\ call.op = "on"
  /\ IsConflict(outcome)
  /\ Cardinality(AllHeld) = MaxRoutes
  /\ InStep
  /\ \E r1, r2 \in registered : r1 # r2 /\ r1[1] = r2[1]

\* the request is exactly the prefix p of the catch-all route k = p/*
IsPrefixOf(segs, k) ==
  LET pattern == Segments(k[2])
  IN /\ EndsInCatchAll(k)
     /\ Len(segs) = Len(pattern) - 1
     /\ \A i \in 1..Len(segs) : SlugMatches(pattern[i], segs[i])

\* C27: a catch-all needs at least one remaining segment: a dispatch that
\* runs the chain of a route p/* is of a request that matches p and has one
\* or more segments after it; a request for exactly p is not matched by
\* p/*, and returns 404 unless another route matches it.
C27_CatchAllNeedsASegment ==
  /\ (Responded /\ RanPattern # <<>> /\ IsCatchAll(RanPattern[Len(RanPattern)])) =>
        /\ Len(ReqSegs) >= Len(RanPattern)
        /\ \A i \in 1..(Len(RanPattern) - 1) : SlugMatches(RanPattern[i], ReqSegs[i])
  /\ call.op = "fetch" =>
        \A k \in registered :
          (k[1] = call.method /\ IsPrefixOf(ReqSegs, k)) =>
            /\ ~Ran(k)
            /\ Matching(call.method, ReqSegs) = {} => outcome = Response(404, Null)

\* GET /a is 404 on a router that holds /a/* and a route that does not match
C27_Witness ==
  /\ call.op = "fetch"
  /\ outcome = Response(404, Null)
  /\ \E k \in registered : k[1] = call.method /\ IsPrefixOf(ReqSegs, k)
  /\ Cardinality({r \in registered : r[1] = call.method}) = MaxRoutes

\* the last handler of the chain of the dispatch has invoked next
LastInvokedNext(dsp) ==
  Len(dsp.stack) > 0 /\ (Len(dsp.stack) - 1) \in dsp.invoked

\* C28: once the last handler of the matched chain has invoked next, the
\* dispatch produces no response: the TypeError of the missing handler is
\* on its way up the handlers that await next, one of which or fetch can
\* always take it, and the dispatch ends rejected with it, not with 501.
C28_NextPastTheEndRejects ==
  \A d \in 1..MaxDispatches :
    LET dsp == dispatches[d]
    IN LastInvokedNext(dsp) =>
         /\ dsp.pc \in {"running", "done"}
         /\ dsp.pc = "running" =>
               /\ dsp.ret = Thrown(<<"TypeError">>)
               /\ dsp.frames = <<>> \/ Top(dsp).state = "awaiting"
         /\ dsp.pc = "done" => dsp.result = Thrown(<<"TypeError">>)
         /\ dsp.alone = Thrown(<<"TypeError">>)

\* a chain of MaxChain handlers, each invoking next, has ended rejected
C28_Witness ==
  /\ dispatches[1].pc = "done"
  /\ Len(dispatches[1].stack) = MaxChain
  /\ LastInvokedNext(dispatches[1])
  /\ dispatches[1].result = Thrown(<<"TypeError">>)

\* the path without its empty segments
Stripped(path) == Render(Segments(path))

\* C29: empty segments are ignored on both sides.  A call of on whose path
\* differs only in empty segments (a trailing or a doubled slash) from a
\* path registered under the method throws the route conflict that names
\* that path; and a request whose path has a trailing slash or repeated
\* slashes gets the response, chain and params, of the path without them.
C29_EmptySegmentsIgnored ==
  /\ call.op = "on" =>
        \A r \in registered :
          (/\ r[1] = call.method
           /\ r[2] # call.path
           /\ Stripped(r[2]) = Stripped(call.path))
          => outcome = ConflictError(call.method, call.path, r[2])
  /\ call.op = "fetch" =>
        outcome = fetch(methods, call.method, Stripped(call.path))

\* a request with doubled slashes answered by a route with a capture that
\* was registered with a trailing slash
C29_Witness ==
  /\ call.op = "fetch"
  /\ call.path # Stripped(call.path)
  /\ Len(ReqSegs) = MaxSegs
  /\ Responded
  /\ RanParams # <<>>
  /\ outcome.body[1].handler[2] # Stripped(outcome.body[1].handler[2])

\* outer is p/* and inner is p/q/*, q a literal or a capture
Nested(outer, inner) ==
  LET po == Segments(outer[2])
      pi == Segments(inner[2])
  IN /\ outer[1] = inner[1]
     /\ EndsInCatchAll(outer)
     /\ EndsInCatchAll(inner)
     /\ Len(pi) = Len(po) + 1
     /\ \A i \in 1..(Len(po) - 1) : pi[i] = po[i]
     /\ ~IsCatchAll(pi[Len(po)])

\* the '*' parameter of the response is the segments of the request from
\* the depth of the catch-all of r on
StarFrom(r) ==
  /\ STAR \in DOMAIN RanParams
  /\ RanParams[STAR].v \in {Slice(ReqSegs, Len(Segments(r[2])) - 1),
                            Join(Slice(ReqSegs, Len(Segments(r[2])) - 1))}

\* C30: with p/* and p/q/* registered and no other route matching, a
\* request p/q/r... runs the chain of p/q/* with '*' the segments after q,
\* and a request p/x/r... whose x does not match q runs the chain of p/*
\* with '*' the segments after p.
C30_DeepestCatchAllWins ==
  call.op = "fetch" =>
    \A outer, inner \in registered :
      (/\ outer[1] = call.method
       /\ Nested(outer, inner)
       /\ RouteMatches(outer[2], ReqSegs)
       /\ Len(ReqSegs) >= Len(Segments(inner[2]))
       /\ Matching(call.method, ReqSegs) \subseteq {outer, inner})
      => IF RouteMatches(inner[2], ReqSegs)
         THEN Ran(inner) /\ StarFrom(inner)
         ELSE Ran(outer) /\ StarFrom(outer)

====
